---- MODULE Spec2Model ----
(***************************************************************************)
(* Model of the board-game query functions of src/utils/bgg.py and         *)
(* src/utils/recommend.py: the paginated recommendation client             *)
(* get_similar_games_v2, the single-page get_similar_games, the exposed    *)
(* recommend_similar, and the catalog lookup get_game_details.             *)
(*                                                                         *)
(* One call runs at a time (the functions are synchronous): Call* starts   *)
(* an operation, each HTTP request is one step and its response another,   *)
(* and Finish hands the outcome back to the caller.                        *)
(***************************************************************************)
EXTENDS Integers, Sequences, FiniteSets, TLC

VARIABLES
    pc,          \* position of the running call
    op,          \* the function being called
    limit,       \* argument limit
    start,       \* argument start
    end,         \* argument end
    i,           \* loop variable of `for i in range(start+1, end+1)`
    all_games,   \* local all_games of get_similar_games_v2
    outcome,     \* "none", "returned" or "raised"
    result,      \* the returned list
    requested,   \* history: params['page'] of every request of this call
    parsed,      \* history: number of pages parsed by this call
    emptyPage,   \* history: number of the first page without results, or 0
    qualified,   \* history: bgg_ids of fetched records meeting the quality
                 \*          criterion, in fetch order
    sawRejected, \* history: some fetched record missed the criterion
    failed,      \* history: how a request of this call failed, or "no"
    stopped,     \* history: a stop condition held after a parsed page
    fetched,     \* history: the raw page get_similar_games worked on
    game_ids,    \* argument of get_game_details
    sent,        \* history: id parameters of the requests of get_game_details
    xml          \* history: the catalog response of this call

vars == <<pc, op, limit, start, end, i, all_games, outcome, result, requested,
          parsed, emptyPage, qualified, sawRejected, failed, stopped, fetched,
          game_ids, sent, xml>>

recVars == <<limit, start, end, i, all_games, requested, parsed, emptyPage,
             qualified, sawRejected, failed, stopped, fetched>>

catVars == <<game_ids, sent, xml>>

-----------------------------------------------------------------------------
(* Bounds *)

MaxPageLen == 2     \* records per upstream page
MaxStart == 1       \* largest start argument
MaxEnd == 4         \* largest end argument
MaxLimit == 2       \* largest limit argument
MaxIds == 2         \* longest list of IDs given to get_game_details
MinLimit == 0 - 1   \* smallest limit argument

Limits == MinLimit..MaxLimit
Starts == 0..MaxStart
Ends == 0..MaxEnd

-----------------------------------------------------------------------------
(* Python values *)

\* Python's None (and JSON null)
None == "None"

\* dict.get(key, default)
Get(d, k, default) == IF k \in DOMAIN d THEN d[k] ELSE default

\* truth value of a string-or-None
Truthy(v) == v # None /\ v # ""

Min(a, b) == IF a < b THEN a ELSE b
Max(a, b) == IF a > b THEN a ELSE b

\* seq[:n] with Python's slice semantics (negative n counts from the end)
Slice(s, n) ==
    IF n >= 0 THEN SubSeq(s, 1, Min(n, Len(s)))
    ELSE SubSeq(s, 1, Max(0, Len(s) + n))

Map(s, F(_)) == [k \in 1..Len(s) |-> F(s[k])]

-----------------------------------------------------------------------------
(* The recommendation API: records of similar.json.  Ratings are in         *)
(* thousandths (rec_rating 1 is 0.001), so that both thresholds are         *)
(* integers.  A field the upstream omits is absent from the record.         *)

Games ==
    { [bgg_id |-> 1, name |-> "Azul", year |-> 2017, description |-> "tiles",
       url |-> "/1", image_url |-> <<"/1.jpg">>, num_votes |-> 30,
       rec_rating |-> 2, bayes_rating |-> 1, avg_rating |-> 1],
      [bgg_id |-> 2, name |-> "Root", year |-> 2018, url |-> "/2",
       num_votes |-> 31, rec_rating |-> 2, bayes_rating |-> 2,
       avg_rating |-> 1],
      [bgg_id |-> 3, name |-> "Catan", description |-> "trade", url |-> "/3",
       num_votes |-> 30, rec_rating |-> 1, bayes_rating |-> 3,
       avg_rating |-> 3],
      [bgg_id |-> 4, name |-> "Risk", year |-> 1959, description |-> "war",
       url |-> "/4", image_url |-> <<"/4.jpg", "/4b.jpg">>, num_votes |-> 30,
       rec_rating |-> 0, bayes_rating |-> 1, avg_rating |-> 1],
      [bgg_id |-> 5, name |-> "Uno", year |-> 1971, description |-> "cards",
       url |-> "/5", image_url |-> <<>>, num_votes |-> 29,
       rec_rating |-> 2, bayes_rating |-> 1, avg_rating |-> 1],
      [bgg_id |-> 6, name |-> "Go", year |-> 1, description |-> "stones",
       url |-> "/6", rec_rating |-> 2, bayes_rating |-> 1, avg_rating |-> 1],
      [bgg_id |-> 7, name |-> "Chess", year |-> 1475, description |-> "kings",
       url |-> "/7", num_votes |-> 30, bayes_rating |-> 1, avg_rating |-> 1],
      [bgg_id |-> 8, year |-> 2020, description |-> "untitled",
       num_votes |-> 40, rec_rating |-> 1, avg_rating |-> 2] }

\* the pages an upstream response can carry: up to MaxPageLen records, no
\* game twice on a page
Pages ==
    { p \in UNION { [1..n -> Games] : n \in 0..MaxPageLen } :
        \A j, k \in 1..Len(p) : p[j] = p[k] => j = k }

\* the values of the 'next' member: absent, null, or a link
NextAbsent == "absent"
NextValues == { NextAbsent, None, "similar.json?page=n" }

\* the JSON objects a body can decode to
JsonObject(page, next) ==
    IF next = NextAbsent THEN [results |-> page]
    ELSE [results |-> page, next |-> next]

Objects ==
    { JsonObject(p, n) : p \in Pages, n \in NextValues }
    \cup { [next |-> None] }          \* no 'results' member

\* the objects the body of a non-2xx response can decode to
ErrorObjects == { [detail |-> "Not found."] }

\* What one requests.get can bring back: no response at all (connection
\* error, timeout), or a response with a status and a body that is either
\* not JSON or decodes to an object.
Responses ==
    { [transport |-> FALSE] }
    \cup { [transport |-> TRUE, ok |-> s, valid |-> FALSE] : s \in BOOLEAN }
    \cup { [transport |-> TRUE, ok |-> TRUE, valid |-> TRUE, data |-> o] :
             o \in Objects }
    \cup { [transport |-> TRUE, ok |-> FALSE, valid |-> TRUE, data |-> o] :
             o \in ErrorObjects }

\* The failure a response amounts to, in the terms of the error-handling
\* design: transport failure, non-2xx status, a body that is not JSON, or a
\* decoded object without its 'results' member.
FailureOf(r) ==
    IF ~r.transport THEN "transport"
    ELSE IF ~r.ok THEN "status"
    ELSE IF ~r.valid THEN "json"
    ELSE IF "results" \notin DOMAIN r.data THEN "field"
    ELSE "no"

\* requests.get(...) raised, or raise_for_status() raised, or json() raised
RequestFails(r) == ~r.transport \/ ~r.ok
JsonFails(r) == r.transport /\ ~r.valid

-----------------------------------------------------------------------------
(* Initial state: no call is running *)

NoCall == [kind |-> "none"]

Init ==
    /\ pc = "idle"
    /\ op = "none"
    /\ limit = 0
    /\ start = 0
    /\ end = 0
    /\ i = 0
    /\ all_games = <<>>
    /\ outcome = "none"
    /\ result = <<>>
    /\ requested = <<>>
    /\ parsed = 0
    /\ emptyPage = 0
    /\ qualified = <<>>
    /\ sawRejected = FALSE
    /\ failed = "no"
    /\ stopped = FALSE
    /\ fetched = <<>>
    /\ game_ids = NoCall
    /\ sent = <<>>
    /\ xml = NoCall

-----------------------------------------------------------------------------
(* The quality criterion of the recommendation client, as the design states *)
(* it: at least 30 votes and a recommendation rating strictly above the     *)
(* variant's threshold; a missing rating counts as 0, missing votes fail.   *)

MinVotes == 30
ThresholdV1 == 0    \* 0 in get_similar_games
ThresholdV2 == 1    \* 0.001 in get_similar_games_v2, in thousandths

Qualifies(g, threshold) ==
    /\ "num_votes" \in DOMAIN g
    /\ g.num_votes >= MinVotes
    /\ (IF "rec_rating" \in DOMAIN g THEN g.rec_rating ELSE 0) > threshold

QualifiesV2(g) == Qualifies(g, ThresholdV2)
QualifiesV1(g) == Qualifies(g, ThresholdV1)

IdsOf(page) == [k \in 1..Len(page) |-> page[k].bgg_id]

-----------------------------------------------------------------------------
(* get_similar_games_v2 *)

\* variant: the rating test lets the threshold itself through
PassesV2AtThreshold(game) ==
    Get(game, "num_votes", 0) >= 30 /\ Get(game, "rec_rating", 0) >= ThresholdV2

\* the comprehension's condition
PassesV2(game) ==
    Get(game, "num_votes", 0) >= 30 /\ Get(game, "rec_rating", 0) > ThresholdV2

\* the comprehension's dictionary; str() of a number is its decimal text
ProcessV2(game) ==
    [id |-> IF "bgg_id" \in DOMAIN game THEN ToString(game.bgg_id) ELSE "",
     title |-> Get(game, "name", ""),
     year |-> IF "year" \in DOMAIN game THEN ToString(game.year)
              ELSE "Unknown",
     description |-> Get(game, "description", "No description available"),
     url |-> Get(game, "url", "")]

processed_games(games) == Map(SelectSeq(games, PassesV2), ProcessV2)

\* variant: the range runs one page further
InRangePlusOne(k) == k < end + 2

\* range(start+1, end+1) still has the value k
InRange(k) == k < end + 1

\* variant: the 'next' member is not looked at
BreakOnCountOnly(games_so_far, api_data) == Len(games_so_far) >= end

\* `if len(all_games) >= end or not api_data.get('next'): break`
BreakAfterPage(games_so_far, api_data) ==
    Len(games_so_far) >= end \/ ~Truthy(Get(api_data, "next", None))

\* variant: the list is returned without truncation
ReturnValueUntruncated == all_games

\* `return all_games[:limit] if limit > 0 else all_games`
ReturnValueV2 == IF limit > 0 THEN Slice(all_games, limit) ELSE all_games

\* variant: the except clauses return what was gathered
ExceptValuePartial == all_games

\* both except clauses: `return []`
ExceptValueV2 == <<>>

CallV2(l, s, e) ==
    /\ pc = "idle"
    /\ op' = "get_similar_games_v2"
    /\ limit' = l
    /\ start' = s
    /\ end' = e
    /\ i' = s + 1
    /\ all_games' = <<>>
    /\ pc' = "v2_for"
    /\ UNCHANGED <<outcome, result, requested, parsed, emptyPage, qualified,
                   sawRejected, failed, stopped, fetched>>
    /\ UNCHANGED catVars

\* params['page'] = i; requests.get(...)
V2Request ==
    /\ pc = "v2_for"
    /\ InRange(i)
    /\ requested' = Append(requested, i)
    /\ pc' = "v2_await"
    /\ UNCHANGED <<op, limit, start, end, i, all_games, outcome, result,
                   parsed, emptyPage, qualified, sawRejected, failed, stopped,
                   fetched>>
    /\ UNCHANGED catVars

\* the rest of the loop body, once the request has come back
V2Response(r) ==
    /\ pc = "v2_await"
    /\ IF RequestFails(r) \/ JsonFails(r)
       THEN \* RequestException or ValueError, caught by the except clauses
            /\ result' = ExceptValueV2
            /\ outcome' = "returned"
            /\ pc' = "done"
            /\ UNCHANGED <<i, all_games, parsed, emptyPage, qualified,
                           sawRejected, stopped>>
       ELSE LET games == Get(r.data, "results", <<>>)
                grown == all_games \o processed_games(games)
            IN /\ parsed' = parsed + 1
               /\ emptyPage' = IF emptyPage = 0 /\ Len(games) = 0 THEN i
                                ELSE emptyPage
               /\ qualified' =
                      qualified \o IdsOf(SelectSeq(games, QualifiesV2))
               /\ sawRejected' =
                      (sawRejected \/
                       \E k \in 1..Len(games) : ~QualifiesV2(games[k]))
               /\ stopped' = \/ Len(games) = 0
                             \/ Len(grown) >= end
                             \/ "next" \notin DOMAIN r.data
                             \/ r.data.next = None
               /\ IF games = <<>>
                  THEN /\ pc' = "v2_return"
                       /\ UNCHANGED <<i, all_games>>
                  ELSE /\ all_games' = grown
                       /\ IF BreakAfterPage(grown, r.data)
                          THEN pc' = "v2_return" /\ i' = i
                          ELSE pc' = "v2_for" /\ i' = i + 1
               /\ UNCHANGED <<outcome, result>>
    /\ failed' = FailureOf(r)
    /\ UNCHANGED <<op, limit, start, end, requested, fetched>>
    /\ UNCHANGED catVars

\* the return statement after the loop, reached by break or by exhaustion
V2Return ==
    /\ \/ pc = "v2_return"
       \/ pc = "v2_for" /\ ~InRange(i)
    /\ result' = ReturnValueV2
    /\ outcome' = "returned"
    /\ pc' = "done"
    /\ UNCHANGED <<op, limit, start, end, i, all_games, requested, parsed,
                   emptyPage, qualified, sawRejected, failed, stopped,
                   fetched>>
    /\ UNCHANGED catVars

-----------------------------------------------------------------------------
(* get_similar_games *)

\* the two list comprehensions that filter
PassesVotesV1(game) == Get(game, "num_votes", 0) >= 30
PassesRatingV1(game) == Get(game, "rec_rating", 0) > ThresholdV1

\* the sort key, a tuple compared lexicographically
SortKey(x) ==
    <<Get(x, "rec_rating", 0), Get(x, "bayes_rating", 0),
      Get(x, "avg_rating", 0)>>

KeyLess(a, b) ==
    \/ a[1] < b[1]
    \/ a[1] = b[1] /\ a[2] < b[2]
    \/ a[1] = b[1] /\ a[2] = b[2] /\ a[3] < b[3]

RECURSIVE InsertDesc(_, _)
\* x goes before the first element with a smaller key, so that equal keys
\* keep their order (list.sort is stable, also with reverse=True)
InsertDesc(x, s) ==
    IF s = <<>> THEN <<x>>
    ELSE IF KeyLess(SortKey(Head(s)), SortKey(x)) THEN <<x>> \o s
    ELSE <<Head(s)>> \o InsertDesc(x, Tail(s))

RECURSIVE SortFrom(_, _, _)
SortFrom(s, k, acc) ==
    IF k > Len(s) THEN acc ELSE SortFrom(s, k + 1, InsertDesc(s[k], acc))

\* results.sort(key=..., reverse=True)
SortDesc(s) == SortFrom(s, 1, <<>>)

\* `if bgg_id and title`
HasIdAndTitle(game_data) ==
    /\ "bgg_id" \in DOMAIN game_data /\ game_data.bgg_id # 0
    /\ "name" \in DOMAIN game_data /\ game_data.name # ""

formatted_game(game_data) ==
    [id |-> ToString(game_data.bgg_id),
     title |-> game_data.name,
     year |-> IF "year" \in DOMAIN game_data THEN ToString(game_data.year)
              ELSE "Unknown",
     description |-> Get(game_data, "description", "No description available"),
     url |-> Get(game_data, "url", None)]

\* the filtered and sorted list `results`
RankedV1(results) ==
    SortDesc(SelectSeq(SelectSeq(results, PassesVotesV1), PassesRatingV1))

\* `for game_data in results[:limit]`
TruncateV1(results, l) == Slice(results, l)

recommended_games(results, l) ==
    Map(SelectSeq(TruncateV1(RankedV1(results), l), HasIdAndTitle),
        formatted_game)

CallV1(l) ==
    /\ pc = "idle"
    /\ op' = "get_similar_games"
    /\ limit' = l
    /\ pc' = "v1_await"
    /\ UNCHANGED <<start, end, i, all_games, outcome, result, requested,
                   parsed, emptyPage, qualified, sawRejected, failed, stopped,
                   fetched>>
    /\ UNCHANGED catVars

\* Everything after requests.get.  response.json() raises a JSONDecodeError
\* that is a RequestException in some releases of requests and only a
\* ValueError in others; only the former is caught here.
V1Response(r, jsonErrorIsRequestException) ==
    /\ pc = "v1_await"
    /\ failed' = FailureOf(r)
    /\ pc' = "done"
    /\ IF RequestFails(r)
       THEN /\ result' = <<>>
            /\ outcome' = "returned"
            /\ UNCHANGED <<fetched, qualified, sawRejected>>
       ELSE IF JsonFails(r)
       THEN /\ result' = <<>>
            /\ outcome' = IF jsonErrorIsRequestException THEN "returned"
                          ELSE "raised"
            /\ UNCHANGED <<fetched, qualified, sawRejected>>
       ELSE IF "results" \notin DOMAIN r.data
       THEN \* KeyError
            /\ result' = <<>>
            /\ outcome' = "raised"
            /\ UNCHANGED <<fetched, qualified, sawRejected>>
       ELSE /\ result' = recommended_games(r.data.results, limit)
            /\ outcome' = "returned"
            /\ fetched' = r.data.results
            /\ qualified' = IdsOf(SelectSeq(r.data.results, QualifiesV1))
            /\ sawRejected' = \E k \in 1..Len(r.data.results) :
                                  ~QualifiesV1(r.data.results[k])
    /\ UNCHANGED <<op, limit, start, end, i, all_games, requested, parsed,
                   emptyPage, stopped>>
    /\ UNCHANGED catVars

-----------------------------------------------------------------------------
(* recommend_similar *)

ItemFields == {"bgg_id", "name", "image_url", "year", "description", "url"}

\* item['...'] raises KeyError on an item without the member
ItemComplete(item) == ItemFields \subseteq DOMAIN item

RecommendItem(item) ==
    [id |-> item.bgg_id,
     name |-> item.name,
     image_url |-> IF Len(item.image_url) > 0 THEN item.image_url[1]
                   ELSE None,
     year |-> item.year,
     description |-> item.description,
     url |-> item.url]

CallRecommend ==
    /\ pc = "idle"
    /\ op' = "recommend_similar"
    /\ pc' = "rs_await"
    /\ UNCHANGED recVars
    /\ UNCHANGED <<outcome, result>>
    /\ UNCHANGED catVars

\* No try block and no raise_for_status: a transport error, a body that is
\* not JSON and a missing member all propagate, and a non-2xx response with
\* a decodable body is processed like any other.
RecommendResponse(r) ==
    /\ pc = "rs_await"
    /\ pc' = "done"
    /\ failed' = IF FailureOf(r) = "no"
                    /\ \E k \in 1..Len(r.data.results) :
                           ~ItemComplete(r.data.results[k])
                 THEN "field" ELSE FailureOf(r)
    /\ IF ~r.transport \/ ~r.valid \/ "results" \notin DOMAIN r.data
       THEN /\ result' = <<>>
            /\ outcome' = "raised"
            /\ UNCHANGED fetched
       ELSE IF \E k \in 1..Len(r.data.results) :
                   ~ItemComplete(r.data.results[k])
       THEN /\ result' = <<>>
            /\ outcome' = "raised"
            /\ UNCHANGED fetched
       ELSE /\ result' = Map(r.data.results, RecommendItem)
            /\ outcome' = "returned"
            /\ fetched' = r.data.results
    /\ UNCHANGED <<op, limit, start, end, i, all_games, requested, parsed,
                   emptyPage, qualified, sawRejected, stopped>>
    /\ UNCHANGED catVars

-----------------------------------------------------------------------------
(* The catalog API: the items of a /thing response.  An item is the record *)
(* of its children; a child the upstream omits is absent from the record.  *)

FullItem ==
    [id |-> "1",
     names |-> << [type |-> "alternate", value |-> "Die Siedler"],
                  [type |-> "primary", value |-> "Catan"] >>,
     description |-> "Trade and build",
     yearpublished |-> "1995",
     minplayers |-> "3",
     maxplayers |-> "4",
     playingtime |-> "120",
     ratings |-> [average |-> "7.1", averageweight |-> "2.3"],
     links |-> << [type |-> "boardgamecategory", value |-> "Economic"],
                  [type |-> "boardgamedesigner", value |-> "Teuber"],
                  [type |-> "boardgamemechanic", value |-> "Trading"],
                  [type |-> "boardgamecategory", value |-> "Negotiation"] >>]

Without(item, member) ==
    [m \in DOMAIN item \ {member} |-> item[m]]

ItemMembers ==
    {"description", "yearpublished", "minplayers", "maxplayers",
     "playingtime", "ratings"}

Items ==
    { FullItem }
    \cup { Without(FullItem, m) : m \in ItemMembers }
    \cup { [FullItem EXCEPT !.names = <<>>],
           [FullItem EXCEPT !.names =
                <<[type |-> "alternate", value |-> "Die Siedler"]>>],
           [FullItem EXCEPT !.ratings = [average |-> "7.1"]],
           [FullItem EXCEPT !.ratings = [averageweight |-> "2.3"]],
           [FullItem EXCEPT !.links = <<>>],
           [FullItem EXCEPT !.links =
                <<[type |-> "boardgamedesigner", value |-> "Teuber"]>>],
           [id |-> "2", names |-> <<[type |-> "primary", value |-> "Go"]>>,
            links |-> <<>>] }

\* What the one requests.get of the catalog client can bring back: no
\* response, a body that is not well-formed XML, or a document of items.
CatalogResponses ==
    { [kind |-> "transport"], [kind |-> "malformed"] }
    \cup { [kind |-> "xml", items |-> <<>>] }
    \cup { [kind |-> "xml", items |-> <<it>>] : it \in Items }
    \cup { [kind |-> "xml", items |-> <<FullItem, it>>] : it \in Items }

\* the arguments: one ID string (possibly already comma-separated, as the
\* tool's text box gives it) or a list of ID strings
IdStrings == {"1", "2"}

RECURSIVE ListsUpTo(_)
ListsUpTo(n) ==
    IF n = 0 THEN { <<>> }
    ELSE ListsUpTo(n - 1)
         \cup { Append(l, x) :
                    l \in { m \in ListsUpTo(n - 1) : Len(m) = n - 1 },
                    x \in IdStrings }

GameIdArgs ==
    { [kind |-> "str", val |-> v] : v \in IdStrings \cup {"1,2"} }
    \cup { [kind |-> "list", val |-> l] : l \in ListsUpTo(MaxIds) }

-----------------------------------------------------------------------------
(* get_game_details *)

RECURSIVE JoinTrailing(_)
\* variant: a comma after every ID, the last included
JoinTrailing(ids) ==
    IF ids = <<>> THEN "" ELSE Head(ids) \o "," \o JoinTrailing(Tail(ids))

RECURSIVE Join(_)
\* ",".join(game_ids)
Join(ids) ==
    IF ids = <<>> THEN ""
    ELSE IF Len(ids) = 1 THEN Head(ids)
    ELSE Head(ids) \o "," \o Join(Tail(ids))

\* `if isinstance(game_ids, list): game_ids = ",".join(game_ids)`
IdParameter(arg) == IF arg.kind = "list" THEN Join(arg.val) ELSE arg.val

\* the id parameters of the requests.get calls of one call
RequestsOf(arg) == <<IdParameter(arg)>>

\* item.find("name[@type='primary']"): the first primary name, or none
PrimaryNames(item) == SelectSeq(item.names, LAMBDA n : n.type = "primary")

\* .get("value") on the result of find raises AttributeError on None
ItemRaises(item) == PrimaryNames(item) = <<>>

ValueOr(item, member, default) ==
    IF member \in DOMAIN item THEN item[member] ELSE default

LinkValues(item, type) ==
    Map(SelectSeq(item.links, LAMBDA l : l.type = type), LAMBDA l : l.value)

\* the dictionary built for one item
GameDetail(item) ==
    [id |-> item.id,
     title |-> PrimaryNames(item)[1].value,
     description |-> ValueOr(item, "description", "No description available"),
     year |-> ValueOr(item, "yearpublished", "Unknown"),
     min_players |-> ValueOr(item, "minplayers", "Unknown"),
     max_players |-> ValueOr(item, "maxplayers", "Unknown"),
     playing_time |-> ValueOr(item, "playingtime", "Unknown"),
     complexity |-> IF "ratings" \in DOMAIN item
                    THEN ValueOr(item.ratings, "averageweight", None)
                    ELSE None,
     rating |-> IF "ratings" \in DOMAIN item
                THEN ValueOr(item.ratings, "average", None)
                ELSE None,
     categories |-> LinkValues(item, "boardgamecategory"),
     mechanics |-> LinkValues(item, "boardgamemechanic")]

CallDetails(arg) ==
    /\ pc = "idle"
    /\ op' = "get_game_details"
    /\ game_ids' = arg
    /\ sent' = RequestsOf(arg)
    /\ pc' = "gd_await"
    /\ UNCHANGED <<outcome, result, xml>>
    /\ UNCHANGED recVars

\* ET.fromstring and the loop over the items; nothing is caught
DetailsResponse(r) ==
    /\ pc = "gd_await"
    /\ xml' = r
    /\ pc' = "done"
    /\ IF r.kind # "xml"
       THEN result' = <<>> /\ outcome' = "raised"
       ELSE IF \E k \in 1..Len(r.items) : ItemRaises(r.items[k])
       THEN result' = <<>> /\ outcome' = "raised"
       ELSE result' = Map(r.items, GameDetail) /\ outcome' = "returned"
    /\ UNCHANGED <<op, game_ids, sent>>
    /\ UNCHANGED recVars

-----------------------------------------------------------------------------
(* The caller takes the outcome; the next call starts from scratch *)

Finish ==
    /\ pc = "done"
    /\ pc' = "idle"
    /\ op' = "none"
    /\ limit' = 0
    /\ start' = 0
    /\ end' = 0
    /\ i' = 0
    /\ all_games' = <<>>
    /\ outcome' = "none"
    /\ result' = <<>>
    /\ requested' = <<>>
    /\ parsed' = 0
    /\ emptyPage' = 0
    /\ qualified' = <<>>
    /\ sawRejected' = FALSE
    /\ failed' = "no"
    /\ stopped' = FALSE
    /\ fetched' = <<>>
    /\ game_ids' = NoCall
    /\ sent' = <<>>
    /\ xml' = NoCall

Next ==
    \/ CallRecommend
    \/ \E r \in Responses : RecommendResponse(r)
    \/ \E l \in Limits : CallV1(l)
    \/ \E r \in Responses, c \in BOOLEAN : V1Response(r, c)
    \/ \E l \in Limits, s \in Starts, e \in Ends : CallV2(l, s, e)
    \/ V2Request
    \/ \E r \in Responses : V2Response(r)
    \/ V2Return
    \/ \E arg \in GameIdArgs : CallDetails(arg)
    \/ \E r \in CatalogResponses : DetailsResponse(r)
    \/ Finish

Spec == Init /\ [][Next]_vars

-----------------------------------------------------------------------------
(* Properties of the recommendation client *)

\* the record of Games an output entry was made from
GameOfId(id) == CHOOSE g \in Games : ToString(g.bgg_id) = id

ResultIds == [k \in 1..Len(result) |-> result[k].id]

Range(s) == { s[k] : k \in 1..Len(s) }

RequestFailures == {"transport", "status", "json"}

\* C1: when a page request of get_similar_games_v2 fails by a transport
\* error, a non-2xx status or a body that is not JSON, the call returns the
\* empty list: not the records of earlier pages, and nothing is raised.
C1_FailureYieldsEmpty ==
    (op = "get_similar_games_v2" /\ failed \in RequestFailures)
        => (pc = "done" /\ outcome = "returned" /\ result = <<>>)

\* a later page failed after records had been accumulated
C1_Witness ==
    /\ op = "get_similar_games_v2"
    /\ pc = "done"
    /\ failed \in RequestFailures
    /\ Len(requested) >= 2
    /\ all_games # <<>>
    /\ result = <<>>

\* C2: once a parsed page met a stop condition (zero results, accumulated
\* count at least end, no 'next' link) no further page is requested and the
\* call returns normally; with pages 1 and 2 non-empty and page 3 empty,
\* exactly pages 1, 2, 3 are requested.
C2_StopEndsRequests ==
    (op = "get_similar_games_v2" /\ stopped)
        => /\ pc \in {"v2_return", "done"}
           /\ Len(requested) = parsed
           /\ outcome # "raised"
           /\ (pc = "done" => outcome = "returned")
           /\ (start = 0 /\ emptyPage = 3) => requested = <<1, 2, 3>>

\* pages 1 and 2 non-empty, page 3 empty, and page 4 within range
C2_Witness ==
    /\ op = "get_similar_games_v2"
    /\ pc = "done"
    /\ start = 0
    /\ end >= 4
    /\ emptyPage = 3
    /\ requested = <<1, 2, 3>>
    /\ outcome = "returned"

\* C3: a successful call of get_similar_games_v2 returns the first
\* min(limit, |A|) of the qualifying records A (page-fetch order, upstream
\* order within a page) when limit > 0, and all of A when limit <= 0.
C3_OutputIsPrefix ==
    (op = "get_similar_games_v2" /\ pc = "done"
     /\ failed \notin RequestFailures)
        => LET n == IF limit > 0 THEN Min(limit, Len(qualified))
                    ELSE Len(qualified)
           IN ResultIds = [k \in 1..n |-> ToString(qualified[k])]

\* more records qualified, over two pages, than a positive limit lets out
C3_Witness ==
    /\ op = "get_similar_games_v2"
    /\ pc = "done"
    /\ failed = "no"
    /\ limit > 0
    /\ Len(qualified) > limit
    /\ parsed >= 2
    /\ Len(result) = limit

\* C4: no record with fewer than 30 votes (or none) or with a rec_rating
\* not above the variant's threshold appears in the output, and every
\* output record comes from a fetched record that meets both.
C4_FilterHolds ==
    (op \in {"get_similar_games", "get_similar_games_v2"} /\ pc = "done"
     /\ outcome = "returned")
        => \A k \in 1..Len(result) :
              /\ Qualifies(GameOfId(result[k].id),
                           IF op = "get_similar_games" THEN ThresholdV1
                           ELSE ThresholdV2)
              /\ GameOfId(result[k].id).bgg_id \in Range(qualified)

\* records were dropped from two pages and others came through
C4_Witness ==
    /\ op = "get_similar_games_v2"
    /\ pc = "done"
    /\ sawRejected
    /\ parsed >= 2
    /\ Len(result) >= 2

\* C5: the list get_similar_games_v2 returns has at most end elements.
C5_EndBoundsResult ==
    (op = "get_similar_games_v2" /\ pc = "done") => Len(result) <= end

\* C6: every recommendation-client operation returns the empty list, and
\* raises nothing, on a transport failure, a non-2xx response, a body that
\* is not JSON, or a response without a mandatory field.
C6_DegradesToEmpty ==
    (op \in {"get_similar_games", "get_similar_games_v2", "recommend_similar"}
     /\ pc = "done" /\ failed # "no")
        => (outcome = "returned" /\ result = <<>>)

\* the ranked records of the page that can be formatted
RankedOut(results) ==
    Map(SelectSeq(RankedV1(results), HasIdAndTitle), formatted_game)

\* C9: get_similar_games with limit <= 0 returns every record that passed
\* the filter, in ranked order; with limit > 0 the first min(limit, n).
C9_NonPositiveLimitUnbounded ==
    (op = "get_similar_games" /\ pc = "done" /\ failed = "no")
        => /\ outcome = "returned"
           /\ result = IF limit > 0
                       THEN Map(SelectSeq(SubSeq(RankedV1(fetched), 1,
                                    Min(limit, Len(RankedV1(fetched)))),
                                    HasIdAndTitle), formatted_game)
                       ELSE RankedOut(fetched)

\* responses of this call that have been dealt with
Processed ==
    parsed + (IF failed \in RequestFailures THEN 1 ELSE 0)

\* C10: get_similar_games_v2 requests pages start+1, start+2, ... in order
\* without gap or repeat, each only after the previous response has been
\* processed, at most max(0, end - start) of them and none above end; with
\* start >= end it requests nothing and returns the empty list.
C10_SequentialPages ==
    (op = "get_similar_games_v2")
        => /\ \A k \in 1..Len(requested) :
                  requested[k] = start + k /\ requested[k] <= end
           /\ Len(requested) <= Max(0, end - start)
           /\ Len(requested) - Processed = IF pc = "v2_await" THEN 1 ELSE 0
           /\ (start >= end /\ pc = "done")
                  => (requested = <<>> /\ result = <<>>
                      /\ outcome = "returned")

\* a call that went through every page its range allows
C10_Witness ==
    /\ op = "get_similar_games_v2"
    /\ pc = "done"
    /\ start = 1
    /\ end = 3
    /\ requested = <<2, 3>>
    /\ failed = "no"

-----------------------------------------------------------------------------
(* Properties of the catalog client *)

RECURSIVE CommaSeparated(_)
\* the IDs written one after the other with a comma between neighbours
CommaSeparated(ids) ==
    IF ids = <<>> THEN ""
    ELSE IF Len(ids) = 1 THEN ids[1]
    ELSE CommaSeparated(SubSeq(ids, 1, Len(ids) - 1)) \o "," \o ids[Len(ids)]

\* C7: get_game_details issues exactly one request whatever the number of
\* IDs; a list is joined with commas into the one id parameter (['1','2']
\* gives '1,2'), and a one-element list [x] issues the request that x does.
C7_OneJoinedRequest ==
    (op = "get_game_details")
        => /\ Len(sent) = 1
           /\ (game_ids.kind = "str") => sent[1] = game_ids.val
           /\ (game_ids.kind = "list")
                  => sent[1] = CommaSeparated(game_ids.val)
           /\ (game_ids.kind = "list" /\ game_ids.val = <<"1", "2">>)
                  => sent[1] = "1,2"
           /\ (game_ids.kind = "list" /\ Len(game_ids.val) = 1)
                  => sent = RequestsOf([kind |-> "str",
                                        val |-> game_ids.val[1]])

\* a list of two IDs was looked up with one request
C7_Witness ==
    /\ op = "get_game_details"
    /\ pc = "done"
    /\ game_ids = [kind |-> "list", val |-> <<"1", "2">>]
    /\ sent = <<"1,2">>
    /\ outcome = "returned"
    /\ Len(result) = 2

HasLink(item, type) == \E k \in 1..Len(item.links) : item.links[k].type = type

\* C8: for every item of a well-formed response get_game_details returns a
\* record whose scalar fields are "Unknown" where the upstream node is
\* absent, whose rating and complexity are null where theirs is, and whose
\* categories and mechanics are empty without a matching link; an absent
\* field never makes the call raise.
C8_AbsentFieldsDefault ==
    (op = "get_game_details" /\ pc = "done" /\ xml.kind = "xml")
        => /\ outcome = "returned"
           /\ Len(result) = Len(xml.items)
           /\ \A k \in 1..Len(result) :
                LET item == xml.items[k]
                    game == result[k]
                IN /\ ItemRaises(item) => game.title = "Unknown"
                   /\ "description" \notin DOMAIN item
                          => game.description = "Unknown"
                   /\ "yearpublished" \notin DOMAIN item
                          => game.year = "Unknown"
                   /\ "minplayers" \notin DOMAIN item
                          => game.min_players = "Unknown"
                   /\ "maxplayers" \notin DOMAIN item
                          => game.max_players = "Unknown"
                   /\ "playingtime" \notin DOMAIN item
                          => game.playing_time = "Unknown"
                   /\ ("ratings" \notin DOMAIN item
                       \/ "average" \notin DOMAIN item.ratings)
                          => game.rating = None
                   /\ ("ratings" \notin DOMAIN item
                       \/ "averageweight" \notin DOMAIN item.ratings)
                          => game.complexity = None
                   /\ ~HasLink(item, "boardgamecategory")
                          => game.categories = <<>>
                   /\ ~HasLink(item, "boardgamemechanic")
                          => game.mechanics = <<>>

====
